---- MODULE Spec2Model ----
(***************************************************************************)
(* Model of web/src/components/CommandPalette.tsx: the command palette's    *)
(* two local flags, its window keydown listener, its fetch-once effect and  *)
(* its three selection handlers, together with the shared stores it reads.  *)
(*                                                                         *)
(* Strings the code takes apart or orders are sequences: a memo name is a   *)
(* sequence of one-character strings, a tag is a sequence of UTF-16 code    *)
(* units.  `calls' holds the collaborator calls made by the latest handler. *)
(***************************************************************************)
EXTENDS Integers, Sequences, FiniteSets, TLC

VARIABLES mounted, listeners, open, hasFetchedMemos, fetches,
          memos, tagCount, storeWrittenElsewhere, calls

vars == <<mounted, listeners, open, hasFetchedMemos, fetches,
          memos, tagCount, storeWrittenElsewhere, calls>>

\* ---------------------------------------------------------------- bounds
MaxFetches == 2
MaxMemos == 2
MaxTags == 3

\* ---------------------------------------------------------------- inputs
Range(s) == {s[i] : i \in DOMAIN s}

InjSeqs(S, n) ==
  UNION {{s \in [1..k -> S] : \A i, j \in 1..k : s[i] = s[j] => i = j} : k \in 0..n}

\* memo identifiers: with a '/', without one, and ending in '/'
MemoNames == {<<"m", "/", "a">>, <<"a">>, <<"m", "/">>}

MemoSnapshots == InjSeqs(MemoNames, MaxMemos)

\* tags "b" and "a" as UTF-16 code units
TagNames == {<<98>>, <<97>>}

TagMaps == InjSeqs(TagNames, Cardinality(TagNames))

\* tags "a", "b", "ab", "B", "aB" for the sorting of the tag list
SortTagNames == {<<97>>, <<98>>, <<97, 98>>, <<66>>, <<97, 66>>}

SortTagMaps == InjSeqs(SortTagNames, MaxTags)

Keys == {"k", "K", "Escape", "a"}

\* ---------------------------------------------------------------- helpers
staticActions ==
  <<[id |-> "home",        path |-> <<"Routes.ROOT">>],
    [id |-> "inbox",       path |-> <<"Routes.INBOX">>],
    [id |-> "attachments", path |-> <<"Routes.ATTACHMENTS">>],
    [id |-> "archived",    path |-> <<"Routes.ARCHIVED">>],
    [id |-> "settings",    path |-> <<"Routes.SETTING">>],
    [id |-> "explore",     path |-> <<"Routes.EXPLORE">>]>>

fetchMemosRequest ==
  [fn |-> "fetchMemos", parent |-> "", state |-> "State.NORMAL",
   orderBy |-> "display_time desc", pageSize |-> 20]

\* String.prototype.split(sep): the segments between occurrences of sep
RECURSIVE SplitFrom(_, _, _)
SplitFrom(s, sep, cur) ==
  IF s = <<>> THEN <<cur>>
  ELSE IF Head(s) = sep THEN <<cur>> \o SplitFrom(Tail(s), sep, <<>>)
  ELSE SplitFrom(Tail(s), sep, Append(cur, Head(s)))

Split(s, sep) == SplitFrom(s, sep, <<>>)

\* Array.prototype.pop(): the last element
Pop(a) == a[Len(a)]

\* default comparison of Array.prototype.sort(): by UTF-16 code units
RECURSIVE StrLess(_, _)
StrLess(x, y) ==
  IF y = <<>> THEN FALSE
  ELSE IF x = <<>> THEN TRUE
  ELSE IF Head(x) # Head(y) THEN Head(x) < Head(y)
  ELSE StrLess(Tail(x), Tail(y))

RECURSIVE InsertSorted(_, _)
InsertSorted(x, s) ==
  IF s = <<>> THEN <<x>>
  ELSE IF StrLess(Head(s), x) THEN <<Head(s)>> \o InsertSorted(x, Tail(s))
  ELSE <<x>> \o s

RECURSIVE SortedCopy(_)
SortedCopy(s) ==
  IF s = <<>> THEN <<>> ELSE InsertSorted(Head(s), SortedCopy(Tail(s)))

SortMutant(s) == s

Sort(s) == SortedCopy(s)

\* Object.keys(userStore.state.tagCount): the keys in iteration order
ObjectKeys(m) == m

\* ---------------------------------------------------------------- render
MemoItemsMutant == IF memos = <<>> THEN <<<<"a">>>> ELSE memos

memoItems == memos

tagItems == Sort(ObjectKeys(tagCount))

RenderMutant ==
  IF ~mounted THEN <<>>
  ELSE <<"Navigate">>
       \o (IF Len(memoItems) >= 0 THEN <<"Recent Memos">> ELSE <<>>)
       \o (IF Len(tagItems) > 0 THEN <<"Tags">> ELSE <<>>)

\* headings of the command groups in the returned element tree
Render ==
  IF ~mounted THEN <<>>
  ELSE <<"Navigate">>
       \o (IF Len(memoItems) > 0 THEN <<"Recent Memos">> ELSE <<>>)
       \o (IF Len(tagItems) > 0 THEN <<"Tags">> ELSE <<>>)

\* ---------------------------------------------------------------- effects
\* the condition of the fetch effect
FetchEffect(o, h) == o /\ ~h

\* the effect runs after a render in which one of its dependencies changed
EffectFires(o, h) == (<<o, h>> # <<open, hasFetchedMemos>>) /\ FetchEffect(o, h)

\* state after the handlers set the flags to o and h, the effect included
CommitFrom(fs, o, h, cs) ==
  /\ open' = o
  /\ hasFetchedMemos' = h
  /\ IF EffectFires(o, h)
       THEN /\ fetches' = Append(fs, [own |-> TRUE, status |-> "pending"])
            /\ calls' = cs \o <<fetchMemosRequest>>
       ELSE /\ fetches' = fs
            /\ calls' = cs

Commit(o, h, cs) == CommitFrom(fetches, o, h, cs)

\* a step is left out when it would issue a request beyond the bound
WithinBound(o, h) == EffectFires(o, h) => Len(fetches) < MaxFetches

HandleKeyDownMutant(prev, key, meta, ctrl) ==
  IF key = "k" /\ (meta \/ ctrl) THEN ~prev
  ELSE IF key = "Escape" THEN FALSE
  ELSE prev

\* the open flag after handleKeyDown
HandleKeyDown(prev, key, meta, ctrl) ==
  IF (key = "k" \/ key = "K") /\ (meta \/ ctrl) THEN ~prev
  ELSE IF key = "Escape" THEN FALSE
  ELSE prev

KeyDownCalls(key, meta, ctrl) ==
  IF (key = "k" \/ key = "K") /\ (meta \/ ctrl)
    THEN <<[fn |-> "preventDefault"]>> ELSE <<>>

\* the number of keydown handlers of this component registered on window
AddListener(n) == n + 1

RemoveListenerMutant(n) == n

RemoveListener(n) == n - 1

\* the requests of an instance that is gone: their finally callbacks still
\* run, on a state setter that no longer has a component
Orphaned(fs) == [i \in DOMAIN fs |-> [fs[i] EXCEPT !.own = FALSE]]

\* ---------------------------------------------------------------- actions
Init ==
  /\ mounted = FALSE
  /\ listeners = 0
  /\ open = FALSE
  /\ hasFetchedMemos = FALSE
  /\ fetches = <<>>
  /\ memos = <<>>
  /\ tagCount \in TagMaps
  /\ storeWrittenElsewhere = FALSE
  /\ calls = <<>>

Mount ==
  /\ ~mounted
  /\ mounted' = TRUE
  /\ open' = FALSE
  /\ hasFetchedMemos' = FALSE
  /\ listeners' = AddListener(listeners)
  /\ calls' = <<>>
  /\ UNCHANGED <<fetches, memos, tagCount, storeWrittenElsewhere>>

Unmount ==
  /\ mounted
  /\ mounted' = FALSE
  /\ listeners' = RemoveListener(listeners)
  /\ open' = FALSE
  /\ hasFetchedMemos' = FALSE
  /\ fetches' = Orphaned(fetches)
  /\ calls' = <<>>
  /\ UNCHANGED <<memos, tagCount, storeWrittenElsewhere>>

\* a keydown event on window, delivered to the registered handler; without
\* a mounted instance it reaches no state
KeyDownWith(key, meta, ctrl) ==
  /\ IF mounted /\ listeners > 0
       THEN /\ Commit(HandleKeyDown(open, key, meta, ctrl), hasFetchedMemos,
                      KeyDownCalls(key, meta, ctrl))
            /\ WithinBound(HandleKeyDown(open, key, meta, ctrl), hasFetchedMemos)
       ELSE /\ calls' = <<>>
            /\ UNCHANGED <<open, hasFetchedMemos, fetches>>
  /\ UNCHANGED <<mounted, listeners, memos, tagCount, storeWrittenElsewhere>>

KeyDown == \E key \in Keys, meta \in BOOLEAN, ctrl \in BOOLEAN : KeyDownWith(key, meta, ctrl)

\* the dialog dismisses itself through onOpenChange
OnOpenChange ==
  /\ mounted /\ open
  /\ Commit(FALSE, hasFetchedMemos, <<>>)
  /\ UNCHANGED <<mounted, listeners, memos, tagCount, storeWrittenElsewhere>>

HandleNavigateMutant(path, cs) ==
  Commit(open, hasFetchedMemos, cs \o <<[fn |-> "navigate", path |-> path]>>)

HandleNavigate(path, cs) ==
  Commit(FALSE, hasFetchedMemos, cs \o <<[fn |-> "navigate", path |-> path]>>)

SelectStaticAt(i) ==
  /\ mounted /\ open
  /\ HandleNavigate(staticActions[i].path, <<>>)
  /\ UNCHANGED <<mounted, listeners, memos, tagCount, storeWrittenElsewhere>>

SelectStatic == \E i \in DOMAIN staticActions : SelectStaticAt(i)

MemoPath(uid) == <<"/", "m", "e", "m", "o", "s", "/">> \o uid

HandleMemoSelectMutant(name) ==
  LET uid == Head(Split(name, "/"))
  IN IF uid # <<>> THEN HandleNavigate(MemoPath(uid), <<>>)
     ELSE Commit(open, hasFetchedMemos, <<>>)

HandleMemoSelect(name) ==
  LET uid == Pop(Split(name, "/"))
  IN IF uid # <<>> THEN HandleNavigate(MemoPath(uid), <<>>)
     ELSE Commit(open, hasFetchedMemos, <<>>)

SelectMemoAt(i) ==
  /\ mounted /\ open
  /\ HandleMemoSelect(memoItems[i])
  /\ UNCHANGED <<mounted, listeners, memos, tagCount, storeWrittenElsewhere>>

SelectMemo == \E i \in DOMAIN memoItems : SelectMemoAt(i)

HandleTagSelectMutant(tag) ==
  Commit(FALSE, hasFetchedMemos,
         <<[fn |-> "addFilter", factor |-> "tagSearch", value |-> tag],
           [fn |-> "navigate", path |-> <<"Routes.ROOT">>]>>)

HandleTagSelect(tag) ==
  Commit(FALSE, hasFetchedMemos,
         <<[fn |-> "addFilter", factor |-> "tagSearch", value |-> tag]>>)

SelectTagAt(i) ==
  /\ mounted /\ open
  /\ HandleTagSelect(tagItems[i])
  /\ UNCHANGED <<mounted, listeners, memos, tagCount, storeWrittenElsewhere>>

SelectTag == \E i \in DOMAIN tagItems : SelectTagAt(i)

\* the has-fetched flag after the finally callback of a request
FinallyMutant(ok, h) == h \/ ok

Finally(ok, h) == TRUE

\* memoStore.state.memos after fetchMemos resolved with a response
FetchMemosResolved(response) == response

\* a pending request settles; its finally callback sets the flag of the
\* instance that issued it, which does nothing once that instance is gone
FetchSettleAt(i, ok, response) ==
  /\ fetches[i].status = "pending"
  /\ ok \/ response = <<>>
  /\ memos' = IF ok THEN FetchMemosResolved(response) ELSE memos
  /\ CommitFrom([fetches EXCEPT ![i].status = IF ok THEN "ok" ELSE "failed"],
                open,
                IF fetches[i].own THEN Finally(ok, hasFetchedMemos) ELSE hasFetchedMemos,
                <<>>)
  /\ UNCHANGED <<mounted, listeners, tagCount, storeWrittenElsewhere>>

FetchSettle ==
  \E i \in DOMAIN fetches, ok \in BOOLEAN, response \in MemoSnapshots :
    FetchSettleAt(i, ok, response)

\* another part of the application writes the shared memo store
MemoStoreWrite ==
  \E snapshot \in MemoSnapshots :
    /\ snapshot # memos
    /\ memos' = snapshot
    /\ storeWrittenElsewhere' = TRUE
    /\ calls' = <<>>
    /\ UNCHANGED <<mounted, listeners, open, hasFetchedMemos, fetches, tagCount>>

\* another part of the application writes the tag counts of the user store
UserStoreWriteFrom(maps) ==
  \E m \in maps :
    /\ m # tagCount
    /\ tagCount' = m
    /\ calls' = <<>>
    /\ UNCHANGED <<mounted, listeners, open, hasFetchedMemos, fetches,
                   memos, storeWrittenElsewhere>>

UserStoreWrite == UserStoreWriteFrom(TagMaps)

Next ==
  \/ Mount
  \/ Unmount
  \/ KeyDown
  \/ OnOpenChange
  \/ SelectStatic
  \/ SelectMemo
  \/ SelectTag
  \/ FetchSettle
  \/ MemoStoreWrite
  \/ UserStoreWrite

Spec == Init /\ [][Next]_vars

\* the tag list over a wider range of tag-count maps: the widget is mounted
\* and unmounted while the user store is rewritten
InitSort ==
  /\ mounted = FALSE
  /\ listeners = 0
  /\ open = FALSE
  /\ hasFetchedMemos = FALSE
  /\ fetches = <<>>
  /\ memos = <<>>
  /\ tagCount \in SortTagMaps
  /\ storeWrittenElsewhere = FALSE
  /\ calls = <<>>

UserStoreWriteSort == UserStoreWriteFrom(SortTagMaps)

NextSort ==
  \/ Mount
  \/ Unmount
  \/ UserStoreWriteSort

SpecSort == InitSort /\ [][NextSort]_vars

\* ---------------------------------------------------------------- claims
OwnFetches == {i \in DOMAIN fetches : fetches[i].own}

Navigate(path) == [fn |-> "navigate", path |-> path]

\* C1: within one mount a fetchMemos request is issued on the first
\* closed->open transition and on no other step, so a step of a mounted
\* widget adds a request exactly when it opens the palette and this mount
\* has issued none before.
C1_FetchExactlyOnce ==
  [][(mounted /\ mounted')
       => Len(fetches') = Len(fetches)
            + (IF ~open /\ open' /\ OwnFetches = {} THEN 1 ELSE 0)]_vars

\* C2: a keydown of k or K with meta or ctrl flips the open flag, a keydown
\* of Escape leaves it false, every other keydown leaves it as it was: no
\* keydown step of a mounted widget (a step that leaves it mounted and the
\* stores as they are) ends with another value of the flag.
C2_KeyDownOpenFlag ==
  [][(mounted /\ mounted' /\ memos' = memos /\ tagCount' = tagCount) =>
       \A key \in Keys, meta \in BOOLEAN, ctrl \in BOOLEAN :
         \/ open' = (IF key \in {"k", "K"} /\ (meta \/ ctrl) THEN ~open
                     ELSE IF key = "Escape" THEN FALSE
                     ELSE open)
         \/ ~KeyDownWith(key, meta, ctrl)]_vars

\* closed again by the shortcut while the request of the first open is pending
C2_Witness ==
  /\ mounted /\ ~open /\ ~hasFetchedMemos
  /\ calls = <<[fn |-> "preventDefault"]>>
  /\ Len(fetches) = 1 /\ fetches[1].own

StaticPath(id) ==
  CASE id = "home" -> <<"Routes.ROOT">>
    [] id = "inbox" -> <<"Routes.INBOX">>
    [] id = "attachments" -> <<"Routes.ATTACHMENTS">>
    [] id = "archived" -> <<"Routes.ARCHIVED">>
    [] id = "settings" -> <<"Routes.SETTING">>
    [] id = "explore" -> <<"Routes.EXPLORE">>

StaticIds == <<"home", "inbox", "attachments", "archived", "settings", "explore">>

\* C3: selecting any of the six static navigation entries makes exactly one
\* call, navigate with that entry's path (so no fetchMemos and no addFilter
\* call), and leaves the palette closed.
C3_StaticSelect ==
  [][(mounted /\ open) =>
       \A i \in DOMAIN StaticIds :
         SelectStaticAt(i)
           => /\ calls' = <<Navigate(StaticPath(StaticIds[i]))>>
              /\ ~open'
              /\ Len(fetches') = Len(fetches)]_vars

C3_Witness ==
  /\ mounted /\ ~open /\ ~hasFetchedMemos
  /\ calls = <<Navigate(<<"Routes.EXPLORE">>)>>
  /\ Len(fetches) = 1 /\ fetches[1].status = "pending"

\* the part of a name after its last '/', the whole name when it has none
TrailingSegment(name) ==
  LET slashes == {i \in DOMAIN name : name[i] = "/"}
      start == IF slashes = {} THEN 1
               ELSE (CHOOSE i \in slashes : \A j \in slashes : j <= i) + 1
  IN SubSeq(name, start, Len(name))

DetailPath(name) == <<"/", "m", "e", "m", "o", "s", "/">> \o TrailingSegment(name)

\* C4 as stated: selecting any recent item, whatever its name, navigates to
\* /memos/<trailing segment> and closes the palette.
C4_AnyNameNavigates ==
  [][(mounted /\ open) =>
       \A i \in DOMAIN memos :
         SelectMemoAt(i) => (calls' = <<Navigate(DetailPath(memos[i]))>> /\ ~open')]_vars

\* C4 amended: selecting a recent item whose name has a non-empty trailing
\* segment navigates to /memos/<trailing segment>, as the only call, and
\* closes the palette; selecting one whose trailing segment is empty makes
\* no call and leaves the palette open.
C4_MemoSelect ==
  [][(mounted /\ open) =>
       \A i \in DOMAIN memos :
         SelectMemoAt(i)
           => IF TrailingSegment(memos[i]) # <<>>
                THEN calls' = <<Navigate(DetailPath(memos[i]))>> /\ ~open'
                ELSE calls' = <<>> /\ open']_vars

\* the second item of a two-item snapshot was selected
C4_Witness ==
  /\ mounted /\ ~open
  /\ memos = <<<<"a">>, <<"m", "/", "a">>>>
  /\ calls = <<Navigate(<<"/", "m", "e", "m", "o", "s", "/", "a">>)>>

\* C5: selecting tag t makes exactly one call, addFilter with
\* {factor: tagSearch, value: t} (so no navigate and no fetchMemos call),
\* and leaves the palette closed.
C5_TagSelect ==
  [][(mounted /\ open) =>
       \A i \in DOMAIN tagCount :
         SelectTagAt(i)
           => /\ calls' = <<[fn |-> "addFilter", factor |-> "tagSearch",
                             value |-> tagItems[i]]>>
              /\ tagItems[i] \in Range(tagCount)
              /\ ~open'
              /\ Len(fetches') = Len(fetches)]_vars

\* the tag listed first was selected, the map iterating it second
C5_Witness ==
  /\ mounted /\ ~open
  /\ calls = <<[fn |-> "addFilter", factor |-> "tagSearch", value |-> <<97>>]>>
  /\ tagCount = <<<<98>>, <<97>>>>

\* C6: when a request of the mounted instance settles, with success (the
\* store then holds the response) or with failure, the has-fetched flag is
\* true afterwards; while the instance
\* stays mounted a true flag stays true and no further request is issued.
C6_SettleMarksFetched ==
  [][/\ \A i \in OwnFetches, ok \in BOOLEAN :
          FetchSettleAt(i, ok, IF ok THEN memos' ELSE <<>>) => hasFetchedMemos'
     /\ (hasFetchedMemos /\ mounted')
          => (hasFetchedMemos' /\ Len(fetches') = Len(fetches))]_vars

\* reopened after the only request failed: no second request
C6_Witness ==
  /\ mounted /\ open /\ hasFetchedMemos
  /\ Len(fetches) = 1 /\ fetches[1].own /\ fetches[1].status = "failed"
  /\ calls = <<[fn |-> "preventDefault"]>>

\* C7: the rendered tag list holds exactly the keys of the tag-count map,
\* each once, in strictly ascending order of their UTF-16 code units,
\* whatever the iteration order of the map.
C7_TagsSorted ==
  /\ Len(tagItems) = Len(tagCount)
  /\ Range(tagItems) = Range(tagCount)
  /\ \A i, j \in DOMAIN tagItems : i < j => StrLess(tagItems[i], tagItems[j])

\* store order "b", "ab", "B" renders as "B", "ab", "b"
C7_Witness ==
  /\ mounted
  /\ tagCount = <<<<98>>, <<97, 98>>, <<66>>>>
  /\ tagItems = <<<<66>>, <<97, 98>>, <<98>>>>

\* C8: while the widget is mounted the "Recent Memos" group is in the
\* render exactly when the memo store snapshot is non-empty.
C8_RecentGroupIffNonEmpty ==
  mounted => (("Recent Memos" \in Range(Render)) <=> (memos # <<>>))

C8_Witness ==
  /\ mounted /\ open /\ hasFetchedMemos /\ memos = <<>>
  /\ "Recent Memos" \notin Range(Render)
  /\ \E i \in OwnFetches : fetches[i].status = "ok"

\* C9 as stated: while the mounted widget's request is pending or has
\* failed, and none of its requests has succeeded, the list shown is empty.
C9_EmptyUntilOwnSuccess ==
  (/\ mounted
   /\ OwnFetches # {}
   /\ \A i \in OwnFetches : fetches[i].status # "ok") => memoItems = <<>>

\* C9 amended: while no request issued by the widget, in this mount or an
\* earlier one, has succeeded and no other part of the application has
\* written the memo store, the list shown is empty.
C9_EmptyUntilStoreWritten ==
  (/\ mounted
   /\ \A i \in DOMAIN fetches : fetches[i].status # "ok"
   /\ ~storeWrittenElsewhere) => memoItems = <<>>

C9_Witness ==
  /\ mounted /\ open /\ ~storeWrittenElsewhere /\ memoItems = <<>>
  /\ \E i \in OwnFetches : fetches[i].status = "failed"
  /\ \E i \in DOMAIN fetches : fetches[i].status = "pending"

\* C10: exactly one keydown handler is registered while the widget is
\* mounted and none while it is unmounted, over any sequence of mounts and
\* unmounts, and a keydown while unmounted changes neither flag and issues
\* no request.
C10_ListenerLifecycle ==
  [][/\ listeners' = (IF mounted' THEN 1 ELSE 0)
     /\ ~mounted =>
          \A key \in Keys, meta \in BOOLEAN, ctrl \in BOOLEAN :
            KeyDownWith(key, meta, ctrl)
              => (UNCHANGED <<open, hasFetchedMemos, fetches>> /\ calls' = <<>>)]_vars

\* unmounted while two requests are still pending: a keydown reaches nothing
C10_Witness ==
  /\ ~mounted /\ listeners = 0 /\ ~open
  /\ Len(fetches) = 2
  /\ \A i \in DOMAIN fetches : ~fetches[i].own /\ fetches[i].status = "pending"

====
